---- MODULE Spec2Model ----
(***************************************************************************)
(* Model of the OData filter/orderby translator of src/odata/odata.py:     *)
(* the segmenter (_parse_segments), the operator matchers                  *)
(* (odata_filters, _parse_expression), the field resolver (_get_field),    *)
(* the expression builder (_build_filters) and the orchestrator            *)
(* (Odata.__init__).                                                       *)
(*                                                                         *)
(* A Python string is a sequence of one-character strings; every index     *)
(* into it is 1-based here and 0-based in the source.                      *)
(***************************************************************************)
EXTENDS Integers, Sequences, FiniteSets, TLC

\* ------------------------------------------------------------------------
\* Strings
\* ------------------------------------------------------------------------

Min(S) == CHOOSE x \in S : \A y \in S : x <= y

Max(S) == CHOOSE x \in S : \A y \in S : x >= y

\* Python's s[a:b] for 0-based a, b that may be negative or out of range.
PySlice(s, a, b) ==
    LET n  == Len(s)
        lo == IF a < 0 THEN (IF a + n < 0 THEN 0 ELSE a + n) ELSE (IF a > n THEN n ELSE a)
        hi == IF b < 0 THEN (IF b + n < 0 THEN 0 ELSE b + n) ELSE (IF b > n THEN n ELSE b)
    IN  IF lo >= hi THEN << >> ELSE SubSeq(s, lo + 1, hi)

\* The word w stands in s at the 1-based position i.
StartsWithAt(s, i, w) ==
    /\ i >= 1
    /\ i + Len(w) - 1 <= Len(s)
    /\ SubSeq(s, i, i + Len(w) - 1) = w

Space == {" "}

Quotes == {"'", "\""}

\* First position j >= i whose character is in Stop, Len(s)+1 when there is none:
\* the end (exclusive) of the longest run of characters outside Stop from i.
SkipUntil(s, i, Stop) ==
    Min({j \in i..(Len(s) + 1) : j = Len(s) + 1 \/ s[j] \in Stop})

\* The end (exclusive) of the longest run of characters of In from i.
SkipWhile(s, i, In) ==
    Min({j \in i..(Len(s) + 1) : j = Len(s) + 1 \/ s[j] \notin In})

\* str.strip(): leading and trailing whitespace removed.
Strip(s) ==
    LET a == SkipWhile(s, 1, Space)
        keep == {j \in 1..Len(s) : s[j] \notin Space}
    IN  IF keep = {} THEN << >> ELSE SubSeq(s, a, Max(keep))

\* str.strip(chars): leading and trailing characters of the set removed.
StripChars(s, chars) ==
    LET keep == {j \in 1..Len(s) : s[j] \notin chars}
    IN  IF keep = {} THEN << >> ELSE SubSeq(s, Min(keep), Max(keep))

\* str.split(sep) for a one-character separator: the pieces between separators.
RECURSIVE Split(_, _)
Split(s, sep) ==
    LET j == SkipUntil(s, 1, {sep})
    IN  IF j > Len(s) THEN << s >>
        ELSE << SubSeq(s, 1, j - 1) >> \o Split(SubSeq(s, j + 1, Len(s)), sep)

\* ------------------------------------------------------------------------
\* Operator matchers: the regular expressions of Odata.odata_filters, each
\* as re.search applies it (leftmost start, greedy with backtracking).
\* A match is [ok, g1, g2, g3]: the groups the builders read.
\* ------------------------------------------------------------------------

NoMatch == [ok |-> FALSE, g1 |-> << >>, g2 |-> << >>, g3 |-> << >>]

Matched(a, b, c) == [ok |-> TRUE, g1 |-> a, g2 |-> b, g3 |-> c]

W_contains == <<"c", "o", "n", "t", "a", "i", "n", "s">>
W_startswith == <<"s", "t", "a", "r", "t", "s", "w", "i", "t", "h">>
W_endswith == <<"e", "n", "d", "s", "w", "i", "t", "h">>
W_eq == <<"e", "q">>
W_ne == <<"n", "e">>
W_gt == <<"g", "t">>
W_lt == <<"l", "t">>
W_ge == <<"g", "e">>
W_le == <<"l", "e">>
W_in == <<"i", "n">>
W_null == <<"n", "u", "l", "l">>
W_true == <<"t", "r", "u", "e">>
W_false == <<"f", "a", "l", "s", "e">>

\* (\S+)\s+KW\s+ at position i: [ok, g1, kwEnd, next] where kwEnd is the
\* position after KW and next the position after the whitespace run.
InfixAt(s, i, kw) ==
    LET e1 == SkipUntil(s, i, Space)
        e2 == SkipWhile(s, e1, Space)
        e3 == e2 + Len(kw)
        e4 == SkipWhile(s, e3, Space)
    IN  IF /\ e1 > i
           /\ e2 > e1
           /\ StartsWithAt(s, e2, kw)
           /\ e4 > e3
        THEN [ok |-> TRUE, g1 |-> SubSeq(s, i, e1 - 1), kwEnd |-> e3, next |-> e4]
        ELSE [ok |-> FALSE, g1 |-> << >>, kwEnd |-> 0, next |-> 0]

\* ['"]([^'"]*)['"]\) after \s* at position p: [ok, g2], the tail of the
\* function-style patterns.
QuotedArgAt(s, p) ==
    LET w == SkipWhile(s, p, Space)
        q == SkipUntil(s, w + 1, Quotes)
    IN  IF /\ w <= Len(s)
           /\ s[w] \in Quotes
           /\ q + 1 <= Len(s)
           /\ s[q + 1] = ")"
        THEN [ok |-> TRUE, g2 |-> SubSeq(s, w + 1, q - 1)]
        ELSE [ok |-> FALSE, g2 |-> << >>]

\* contains\(([^,]+),\s*[\'\"]([^\'\"]*)[\'\"]\)
Re_contains_At(s, i) ==
    LET p == i + Len(W_contains) + 1
        c == SkipUntil(s, p, {","})
        t == QuotedArgAt(s, c + 1)
    IN  IF /\ StartsWithAt(s, i, W_contains \o <<"(">>)
           /\ c > p
           /\ c <= Len(s)
           /\ t.ok
        THEN Matched(SubSeq(s, p, c - 1), t.g2, << >>)
        ELSE NoMatch

\* FN\((\S+),\s*[\'\"]([^\'\"]*)[\'\"]\): \S+ is greedy and may hold commas,
\* so group 1 ends at the last comma of the run after which the rest matches.
FuncCallAt(s, i, fn) ==
    LET p == i + Len(fn) + 1
        r == SkipUntil(s, p, Space)
        commas == {c \in (p + 1)..(r - 1) : s[c] = "," /\ QuotedArgAt(s, c + 1).ok}
    IN  IF StartsWithAt(s, i, fn \o <<"(">>) /\ commas # {}
        THEN Matched(SubSeq(s, p, Max(commas) - 1), QuotedArgAt(s, Max(commas) + 1).g2, << >>)
        ELSE NoMatch

\* startswith\((\S+),\s*[\'\"]([^\'\"]*)[\'\"]\)
Re_startswith_At(s, i) == FuncCallAt(s, i, W_startswith)

\* endswith\((\S+),\s*[\'\"]([^\'\"]*)[\'\"]\)
Re_endswith_At(s, i) == FuncCallAt(s, i, W_endswith)

\* (\S+)\s+(eq|ne)\s+(null|true|false)
Re_eqbool_At(s, i) ==
    LET kws == {kw \in {W_eq, W_ne} : InfixAt(s, i, kw).ok}
        kw == CHOOSE k \in kws : TRUE
        m == InfixAt(s, i, kw)
        lits == {w \in {W_null, W_true, W_false} : StartsWithAt(s, m.next, w)}
    IN  IF kws # {} /\ lits # {}
        THEN Matched(m.g1, kw, CHOOSE w \in lits : TRUE)
        ELSE NoMatch

\* (\S+)\s+KW\s+[\'\"]?([^\'\"]*)[\'\"]?  for KW eq, ne
QuotedInfixAt(s, i, kw) ==
    LET m == InfixAt(s, i, kw)
        v0 == IF m.next <= Len(s) /\ s[m.next] \in Quotes THEN m.next + 1 ELSE m.next
        v1 == SkipUntil(s, v0, Quotes)
    IN  IF m.ok THEN Matched(m.g1, SubSeq(s, v0, v1 - 1), << >>) ELSE NoMatch

Re_eq_At(s, i) == QuotedInfixAt(s, i, W_eq)

Re_ne_At(s, i) == QuotedInfixAt(s, i, W_ne)

\* (\S+)\s+KW\s+(.+)  for KW gt, lt, ge, le: when the whitespace run reaches
\* the end of the string, \s+ gives its last character back to (.+).
BareInfixAt(s, i, kw) ==
    LET m == InfixAt(s, i, kw)
    IN  IF ~m.ok THEN NoMatch
        ELSE IF m.next <= Len(s) THEN Matched(m.g1, SubSeq(s, m.next, Len(s)), << >>)
        ELSE IF m.next - m.kwEnd >= 2 THEN Matched(m.g1, <<" ">>, << >>)
        ELSE NoMatch

Re_gt_At(s, i) == BareInfixAt(s, i, W_gt)

Re_lt_At(s, i) == BareInfixAt(s, i, W_lt)

Re_ge_At(s, i) == BareInfixAt(s, i, W_ge)

Re_le_At(s, i) == BareInfixAt(s, i, W_le)

\* (\S+)\s+in\s*\(([^)]*)\)
Re_in_At(s, i) ==
    LET e1 == SkipUntil(s, i, Space)
        e2 == SkipWhile(s, e1, Space)
        e3 == e2 + Len(W_in)
        e4 == SkipWhile(s, e3, Space)
        c == SkipUntil(s, e4 + 1, {")"})
    IN  IF /\ e1 > i
           /\ e2 > e1
           /\ StartsWithAt(s, e2, W_in)
           /\ e4 <= Len(s)
           /\ s[e4] = "("
           /\ c <= Len(s)
        THEN Matched(SubSeq(s, i, e1 - 1), SubSeq(s, e4 + 1, c - 1), << >>)
        ELSE NoMatch

\* The table with the null/boolean entry after the entries of eq and ne.
EqBeforeEqbool ==
    <<"contains", "eq", "ne", "eqbool", "startswith", "endswith",
      "gt", "lt", "ge", "le", "in">>

\* The table self.odata_filters, in its order.
odata_filters ==
    <<"contains", "eqbool", "eq", "ne", "startswith", "endswith",
      "gt", "lt", "ge", "le", "in">>

\* The match of the entry named name's regex at position i of s, if any.
MatchAt(name, s, i) ==
    CASE name = "contains" -> Re_contains_At(s, i)
      [] name = "eqbool" -> Re_eqbool_At(s, i)
      [] name = "eq" -> Re_eq_At(s, i)
      [] name = "ne" -> Re_ne_At(s, i)
      [] name = "startswith" -> Re_startswith_At(s, i)
      [] name = "endswith" -> Re_endswith_At(s, i)
      [] name = "gt" -> Re_gt_At(s, i)
      [] name = "lt" -> Re_lt_At(s, i)
      [] name = "ge" -> Re_ge_At(s, i)
      [] name = "le" -> Re_le_At(s, i)
      [] name = "in" -> Re_in_At(s, i)

\* re.search(odata_filter.regex, expression_str) for the entry named name:
\* the match at the leftmost position where the pattern matches.
RegexSearch(name, s) ==
    LET hits == {i \in 1..Len(s) : MatchAt(name, s, i).ok}
    IN  IF hits = {} THEN NoMatch ELSE MatchAt(name, s, Min(hits))

\* ------------------------------------------------------------------------
\* The data model of src/app/models.py, as getattr(model, name) sees it.
\* ------------------------------------------------------------------------

\* One mapped attribute of an entity class: a column with its type, a
\* relationship with its target class, or a hybrid property.
Attr(e, n, k, t, tgt) == [entity |-> e, name |-> n, kind |-> k, type |-> t, target |-> tgt]

Registry ==
    { Attr("User", <<"i", "d">>, "column", "Integer", ""),
      Attr("User", <<"u", "s", "e", "r", "n", "a", "m", "e">>, "column", "String", ""),
      Attr("User", <<"i", "s", "_", "a", "c", "t", "i", "v", "e">>, "column", "Boolean", ""),
      Attr("User", <<"l", "o", "g", "i", "n", "s">>, "column", "Integer", ""),
      Attr("User", <<"n", "o", "t", "e">>, "column", "String", ""),
      Attr("User", <<"s", "u", "p", "e", "r", "v", "i", "s", "o", "r", "_", "i", "d">>, "column", "Integer", ""),
      Attr("User", <<"s", "t", "a", "r", "t", "_", "d", "a", "t", "e">>, "column", "Date", ""),
      Attr("User", <<"c", "r", "e", "a", "t", "e", "d">>, "column", "DateTime", ""),
      Attr("User", <<"c", "o", "m", "m", "e", "n", "t", "s">>, "relationship", "", "Comment"),
      Attr("User", <<"r", "o", "l", "e", "s">>, "relationship", "", "Role"),
      Attr("User", <<"r", "e", "p", "o", "r", "t", "s">>, "relationship", "", "User"),
      Attr("User", <<"s", "u", "p", "e", "r", "v", "i", "s", "o", "r">>, "relationship", "", "User"),
      Attr("User", <<"i", "s", "_", "s", "u", "p", "e", "r", "v", "i", "s", "o", "r">>, "hybrid", "", ""),
      Attr("User", <<"u", "s", "e", "r", "n", "a", "m", "e", "_", "s", "u", "p", "e", "r", "v", "i", "s", "o", "r", "_", "i", "d">>, "hybrid", "", ""),
      Attr("Comment", <<"i", "d">>, "column", "Integer", ""),
      Attr("Comment", <<"u", "s", "e", "r", "_", "i", "d">>, "column", "Integer", ""),
      Attr("Comment", <<"b", "o", "d", "y">>, "column", "Text", ""),
      Attr("Comment", <<"c", "r", "e", "a", "t", "e", "d">>, "column", "DateTime", ""),
      Attr("Comment", <<"u", "s", "e", "r">>, "relationship", "", "User"),
      Attr("Role", <<"i", "d">>, "column", "Integer", ""),
      Attr("Role", <<"n", "a", "m", "e">>, "column", "String", ""),
      Attr("Role", <<"u", "s", "e", "r", "s">>, "relationship", "", "User") }

Models == {"User", "Comment", "Role"}

\* What _get_field returns: an attribute reached through the class itself
\* (alias 0) or through the alias-th aliased() class of the query.
Field(a, alias) ==
    [entity |-> a.entity, name |-> a.name, kind |-> a.kind, type |-> a.type,
     target |-> a.target, alias |-> alias]

NoField == [entity |-> "", name |-> << >>, kind |-> "", type |-> "", target |-> "", alias |-> 0]

\* stringcase.snakecase on the letters the field names use: '-', '.' and
\* whitespace become '_', the first character is lowercased and every later
\* capital becomes '_' and its lowercase.
Capitals == {"A", "C", "D", "E", "I", "S"}

Lowercase(c) ==
    CASE c = "A" -> "a"
      [] c = "C" -> "c"
      [] c = "D" -> "d"
      [] c = "E" -> "e"
      [] c = "I" -> "i"
      [] c = "S" -> "s"
      [] OTHER -> c

RECURSIVE SnakeTail(_)
SnakeTail(s) ==
    IF s = << >> THEN << >>
    ELSE (IF s[1] \in Capitals THEN <<"_", Lowercase(s[1])>> ELSE <<s[1]>>)
         \o SnakeTail(Tail(s))

snakecase(string) ==
    LET t == [j \in 1..Len(string) |->
                 IF string[j] \in {"-", ".", " "} THEN "_" ELSE string[j]]
    IN  IF t = << >> THEN t ELSE <<Lowercase(t[1])>> \o SnakeTail(Tail(t))

\* ------------------------------------------------------------------------
\* Errors and the query under construction
\* ------------------------------------------------------------------------

\* An exception leaving Odata.__init__: a werkzeug BadRequest with its
\* description (a fixed message, the entity named and the text quoted), or
\* another exception class.
Error(exc, msg, entity, text) == [exc |-> exc, msg |-> msg, entity |-> entity, text |-> text]

NoError == Error("", "", "", << >>)

BadRequest(msg, entity, text) == Error("BadRequest", msg, entity, text)

MSG_QUOTES == "Quotes in filter string are mismatched."
MSG_PARENS == "Parentheses in filter string are mismatched."
MSG_NOFILTER == "No available filter matches segment"
MSG_NOCOLUMN == "has no column named"
MSG_NOREL == "has no relationship property named"
MSG_ORDERBY == "The orderby parameter should only contain [columnName direction]"
MSG_DIRECTION == "orderby direction can only be [asc] or [desc]"

\* session.query(model): no join, no criterion, no ordering.
NewQuery(model) ==
    [model |-> model, joins |-> << >>, filtered |-> FALSE, criteria |-> << >>, order_by |-> << >>]

\* ------------------------------------------------------------------------
\* Field resolver and value coercer
\* ------------------------------------------------------------------------

\* getattr(model, field_name, None): the mapped attributes of that name.
GetAttr(entity, name) == {a \in Registry : a.entity = entity /\ a.name = name}

\* The aliases aliased() has made for the query so far.
AliasCount(query) == Cardinality({j \in 1..Len(query.joins) : query.joins[j].alias > 0})

\* The loop of Odata._get_field from component k on, resolving against
\* model = [entity, alias]; the joins go onto the query as they are made.
\* A component is taken as the final one when its NAME equals the last
\* component's name (field_name != clean_fields[-1]).
RECURSIVE GetFieldLoop(_, _, _, _)
GetFieldLoop(query, model, clean_fields, k) ==
    LET field_name == clean_fields[k]
        found == GetAttr(model.entity, field_name)
        a == CHOOSE x \in found : TRUE
    IN  IF found = {}
        THEN [ok |-> FALSE, field |-> NoField, query |-> query,
              err |-> BadRequest(MSG_NOCOLUMN, model.entity, field_name)]
        ELSE IF field_name # clean_fields[Len(clean_fields)]
        THEN IF a.kind # "relationship"
             THEN [ok |-> FALSE, field |-> NoField, query |-> query,
                   err |-> BadRequest(MSG_NOREL, model.entity, field_name)]
             ELSE IF a.target = model.entity /\ model.alias = 0
             THEN \* self-referential: model = aliased(field_class)
                  LET n == AliasCount(query) + 1
                      j == [entity |-> a.entity, name |-> a.name, src |-> model.alias, alias |-> n]
                  IN  GetFieldLoop([query EXCEPT !.joins = Append(@, j)],
                                   [entity |-> a.target, alias |-> n], clean_fields, k + 1)
             ELSE LET j == [entity |-> a.entity, name |-> a.name, src |-> model.alias, alias |-> 0]
                  IN  GetFieldLoop([query EXCEPT !.joins = Append(@, j)],
                                   [entity |-> a.target, alias |-> 0], clean_fields, k + 1)
        ELSE [ok |-> TRUE, field |-> Field(a, model.alias), query |-> query, err |-> NoError]

\* Odata._get_field(field_input) on self.query.
_get_field(query, field_input) ==
    LET parts == Split(Strip(field_input), "/")
        clean_fields == [j \in 1..Len(parts) |-> snakecase(parts[j])]
    IN  GetFieldLoop(query, [entity |-> query.model, alias |-> 0], clean_fields, 1)

Digits == {"0", "1", "2", "3", "4", "5", "6", "7", "8", "9"}

\* The formats of strptime: a letter is the directive %letter, any other
\* character stands for itself.
STRPTIME_DATETIME == <<"Y", "-", "m", "-", "d", "T", "H", ":", "M", ":", "S">>

STRPTIME_DATE == <<"Y", "-", "m", "-", "d">>

DigitValue(c) ==
    CASE c = "0" -> 0 [] c = "1" -> 1 [] c = "2" -> 2 [] c = "3" -> 3 [] c = "4" -> 4
      [] c = "5" -> 5 [] c = "6" -> 6 [] c = "7" -> 7 [] c = "8" -> 8 [] OTHER -> 9

RECURSIVE Number(_)
\* int() of a run of digits.
Number(s) == IF s = << >> THEN 0 ELSE 10 * Number(SubSeq(s, 1, Len(s) - 1)) + DigitValue(s[Len(s)])

\* The digits a directive takes at i: four for %Y, one or two for the others.
DirectiveEnd(value_string, i, directive) ==
    LET run == SkipWhile(value_string, i, Digits)
    IN  IF directive = "Y" THEN (IF run - i >= 4 THEN i + 4 ELSE i)
        ELSE Min({run, i + 2})

\* The number of days of a month of a year.
DaysIn(year, month) ==
    IF month = 2
    THEN (IF year % 4 = 0 /\ (year % 100 # 0 \/ year % 400 = 0) THEN 29 ELSE 28)
    ELSE IF month \in {4, 6, 9, 11} THEN 30 ELSE 31

RECURSIVE StrptimeFrom(_, _, _, _, _)
\* The format matched against the text from directive k at position i, with
\* the numbers read so far: every directive finds its digits, every other
\* character of the format is found as it is, no text remains, and the
\* numbers make a date and a time of day.
StrptimeFrom(value_string, i, fmt, k, got) ==
    IF k > Len(fmt)
    THEN /\ i = Len(value_string) + 1
         /\ got["Y"] \in 1..9999
         /\ got["m"] \in 1..12
         /\ got["d"] \in 1..DaysIn(got["Y"], got["m"])
         /\ got["H"] \in 0..23
         /\ got["M"] \in 0..59
         /\ got["S"] \in 0..59
    ELSE IF fmt[k] \in {"Y", "m", "d", "H", "M", "S"}
    THEN LET e == DirectiveEnd(value_string, i, fmt[k])
         IN  /\ e > i
             /\ StrptimeFrom(value_string, e, fmt, k + 1,
                             [got EXCEPT ![fmt[k]] = Number(SubSeq(value_string, i, e - 1))])
    ELSE /\ i <= Len(value_string)
         /\ value_string[i] = fmt[k]
         /\ StrptimeFrom(value_string, i + 1, fmt, k + 1, got)

\* datetime.strptime(value_string, fmt) succeeds.
StrptimeOk(value_string, fmt) ==
    StrptimeFrom(value_string, 1, fmt, 1,
                 [x \in {"Y", "m", "d", "H", "M", "S"} |-> IF x \in {"m", "d"} THEN 1 ELSE 0])

\* Odata._parse_value(field, value_string): [ok, vtype, err].  The value
\* keeps its text; vtype says what it was converted to.
_parse_value(field, value_string) ==
    IF field.kind = "relationship"
    THEN \* field.property.columns on a RelationshipProperty
         [ok |-> FALSE, vtype |-> "", err |-> Error("AttributeError", "", "", value_string)]
    ELSE IF field.kind = "column" /\ field.type = "DateTime"
    THEN IF StrptimeOk(value_string, STRPTIME_DATETIME)
         THEN [ok |-> TRUE, vtype |-> "datetime", err |-> NoError]
         ELSE [ok |-> FALSE, vtype |-> "", err |-> Error("ValueError", "", "", value_string)]
    ELSE IF field.kind = "column" /\ field.type = "Date"
    THEN IF StrptimeOk(value_string, STRPTIME_DATE)
         THEN [ok |-> TRUE, vtype |-> "date", err |-> NoError]
         ELSE [ok |-> FALSE, vtype |-> "", err |-> Error("ValueError", "", "", value_string)]
    ELSE [ok |-> TRUE, vtype |-> "str", err |-> NoError]

\* ------------------------------------------------------------------------
\* Predicates and their builders
\* ------------------------------------------------------------------------

\* A SQLAlchemy expression: a comparison of a field (op, field, value or
\* values, vtype), or a junction and_/or_ of the expressions args.
Expr(op, field, value, values, vtype, args) ==
    [op |-> op, field |-> field, value |-> value, values |-> values,
     vtype |-> vtype, args |-> args]

\* Segment.expression = None
NoneExpr == Expr("None", NoField, << >>, << >>, "", << >>)

Compare(op, field, value, vtype) == Expr(op, field, value, << >>, vtype, << >>)

\* and_(*args), or_(*args)
Junction(junction, args) == Expr(junction, NoField, << >>, << >>, "", args)

Built(e, query) == [ok |-> TRUE, expr |-> e, query |-> query, err |-> NoError]

Failed(err, query) == [ok |-> FALSE, expr |-> NoneExpr, query |-> query, err |-> err]

\* _parse_contains, _parse_startswith, _parse_endswith: the field's method
\* on the literal, which is not coerced.
ParseMethod(op, query, match) ==
    LET f == _get_field(query, match.g1)
    IN  IF f.ok THEN Built(Compare(op, f.field, match.g2, "str"), f.query)
        ELSE Failed(f.err, f.query)

\* _parse_eqbool: field == value or field != value for None, True, False.
_parse_eqbool(query, match) ==
    LET f == _get_field(query, match.g1)
        operator == IF match.g2 = W_eq THEN "eq" ELSE "ne"
    IN  IF f.ok THEN Built(Compare(operator, f.field, match.g3, "const"), f.query)
        ELSE Failed(f.err, f.query)

\* _parse_eq, _parse_ne, _parse_gt, _parse_lt, _parse_ge, _parse_le.
ParseCompare(op, query, match) ==
    LET f == _get_field(query, match.g1)
        v == _parse_value(f.field, match.g2)
    IN  IF ~f.ok THEN Failed(f.err, f.query)
        ELSE IF ~v.ok THEN Failed(v.err, f.query)
        ELSE Built(Compare(op, f.field, match.g2, v.vtype), f.query)

\* _parse_in: the comma-separated items, each stripped of blanks and quotes
\* and coerced.
_parse_in(query, match) ==
    LET f == _get_field(query, match.g1)
        items == Split(match.g2, ",")
        values == [j \in 1..Len(items) |-> StripChars(items[j], {" ", "'", "\""})]
        bad == {j \in 1..Len(values) : ~_parse_value(f.field, values[j]).ok}
    IN  IF ~f.ok THEN Failed(f.err, f.query)
        ELSE IF bad # {} THEN Failed(_parse_value(f.field, values[Min(bad)]).err, f.query)
        ELSE Built(Expr("in", f.field, << >>, values,
                        _parse_value(f.field, values[1]).vtype, << >>), f.query)

\* odata_filter.func(match) for the table entry named name.
ApplyBuilder(name, query, match) ==
    CASE name = "contains" -> ParseMethod("contains", query, match)
      [] name = "startswith" -> ParseMethod("startswith", query, match)
      [] name = "endswith" -> ParseMethod("endswith", query, match)
      [] name = "eqbool" -> _parse_eqbool(query, match)
      [] name = "in" -> _parse_in(query, match)
      [] OTHER -> ParseCompare(name, query, match)

RECURSIVE TryFilters(_, _, _)

\* The loop without its return: the last matching entry builds.
MatchLast(query, expression_str, k, match) ==
    LET later == TryFilters(query, expression_str, k + 1)
    IN  IF match.ok /\ later.err.msg = MSG_NOFILTER
        THEN ApplyBuilder(odata_filters[k], query, match)
        ELSE later

\* if match := re.search(...): return odata_filter.func(match)
MatchOrNext(query, expression_str, k, match) ==
    IF match.ok THEN ApplyBuilder(odata_filters[k], query, match)
    ELSE TryFilters(query, expression_str, k + 1)

\* The loop "for odata_filter in self.odata_filters" from entry k on, and
\* the raise after it.
TryFilters(query, expression_str, k) ==
    IF k > Len(odata_filters)
    THEN Failed(BadRequest(MSG_NOFILTER, "", expression_str), query)
    ELSE MatchOrNext(query, expression_str, k, RegexSearch(odata_filters[k], expression_str))

\* Odata._parse_expression(expression_str) on self.query.
_parse_expression(query, expression_str) == TryFilters(query, expression_str, 1)

\* ------------------------------------------------------------------------
\* Segmenter: Odata._parse_segments
\* ------------------------------------------------------------------------

\* The dataclass Segment.
Segment(depth, junction, expression, string) ==
    [depth |-> depth, segments |-> << >>, junction |-> junction,
     expression |-> expression, string |-> string]

\* The locals of one activation of _parse_segments, entered with
\* self.paren_depth = depth and the parameter last_junction.
NewFrame(depth, last_junction) ==
    [in_quotes |-> "", skipping |-> 0, filter_function |-> FALSE,
     expression_str |-> << >>,
     segments |-> << Segment(depth, last_junction, NoneExpr, << >>) >>,
     last_junction |-> "None"]

\* The state of one Odata.__init__ call: the object's fields, the stack of
\* _parse_segments activations (the innermost last), the position of the
\* shared iterator (pos characters consumed), the tree _parse_segments
\* returned, and what the call has ended with.
NewOdata(model, filter, orderby) ==
    [filter_string |-> filter, orderby |-> orderby, pos |-> 0, paren_depth |-> 0,
     frames |-> IF filter = << >> THEN << >> ELSE << NewFrame(0, "and_") >>,
     segments |-> << >>, query |-> NewQuery(model),
     pc |-> IF filter = << >> THEN "orderby" ELSE "scan",
     error |-> NoError]

Top(m) == m.frames[Len(m.frames)]

SetTop(m, f) == [m EXCEPT !.frames[Len(m.frames)] = f]

\* A raise: the exception leaves __init__ and the activations are unwound.
\* What follows a raise in the code is not run: the operators below leave a
\* state with pc = "error" as it is.
Raise(m, err) == [m EXCEPT !.pc = "error", !.error = err, !.frames = << >>]

Raised(m) == m.pc = "error"

\* The next (index, char) of the iterator is consumed.
Advance(m) == [m EXCEPT !.pos = @ + 1]

\* _is_filter_function() for the paren at 0-based index.
_is_filter_function(filter_string, index) ==
    \/ PySlice(filter_string, index - 2, index) = W_in
    \/ PySlice(filter_string, index - 3, index) = W_in \o <<" ">>
    \/ PySlice(filter_string, index - 8, index) \in {W_contains, W_endswith}
    \/ PySlice(filter_string, index - 10, index) = W_startswith

\* _close_expression(): a non-empty expression_str is matched and appended
\* as a leaf segment; the match may raise.
AppendLeaf(m, r) ==
    LET f == Top(m)
        leaf == Segment(m.paren_depth, f.last_junction, r.expr, f.expression_str)
    IN  IF ~r.ok THEN Raise(m, r.err)
        ELSE [SetTop(m, [f EXCEPT !.segments = Append(@, leaf), !.expression_str = << >>])
                EXCEPT !.query = r.query]

_close_expression(m) ==
    IF Raised(m) THEN m
    ELSE IF Top(m).expression_str = << >> THEN m
    ELSE AppendLeaf(m, _parse_expression(m.query, Top(m).expression_str))

\* _validate_clean_segment() without its check of the parens.
ValidateQuotesOnly(m) ==
    IF Raised(m) THEN m
    ELSE IF Top(m).in_quotes # "" THEN Raise(m, BadRequest(MSG_QUOTES, "", << >>))
    ELSE m

\* _validate_clean_segment() without its check of the quotes.
ValidateParensOnly(m) ==
    IF Raised(m) THEN m
    ELSE IF m.paren_depth # Top(m).segments[1].depth \/ Top(m).filter_function
    THEN Raise(m, BadRequest(MSG_PARENS, "", << >>))
    ELSE m

\* _validate_clean_segment()
_validate_clean_segment(m) ==
    LET f == Top(m)
    IN  IF Raised(m) THEN m
        ELSE IF f.in_quotes # "" THEN Raise(m, BadRequest(MSG_QUOTES, "", << >>))
        ELSE IF m.paren_depth # f.segments[1].depth \/ f.filter_function
        THEN Raise(m, BadRequest(MSG_PARENS, "", << >>))
        ELSE m

\* return segments: to the activation that called (segments[-1].segments =
\* ...), or from the outermost one to _filter_parser.
Return(m) ==
    LET n == Len(m.frames)
        ret == Top(m).segments
    IN  IF Raised(m) THEN m
        ELSE IF n = 1
        THEN [m EXCEPT !.frames = << >>, !.segments = ret, !.pc = "build"]
        ELSE LET caller == m.frames[n - 1]
                 last == Len(caller.segments)
             IN  [m EXCEPT !.frames =
                     Append(SubSeq(m.frames, 1, n - 2),
                            [caller EXCEPT !.segments[last].segments = ret])]

\* Branch with the test of '(' not guarded by "not in_quotes".
BranchOpenInQuotes(m) ==
    LET f == Top(m)
        index == m.pos
        char == m.filter_string[m.pos + 1]
    IN  IF m.pos >= Len(m.filter_string) THEN "end"
        ELSE IF f.skipping > 0 THEN "skip"
        ELSE IF \/ (f.in_quotes # "" /\ char = f.in_quotes)
                \/ (f.in_quotes = "" /\ char \in Quotes) THEN "quote"
        ELSE IF char = "(" THEN "open"
        ELSE IF f.in_quotes = "" /\ char = ")" THEN "close"
        ELSE IF f.in_quotes = "" /\ PySlice(m.filter_string, index, index + 5)
                                      = <<" ", "a", "n", "d", " ">> THEN "and"
        ELSE IF f.in_quotes = "" /\ PySlice(m.filter_string, index, index + 4)
                                      = <<" ", "o", "r", " ">> THEN "or"
        ELSE "char"

\* Which branch of the loop body the next iteration takes.
Branch(m) ==
    LET f == Top(m)
        index == m.pos
        char == m.filter_string[m.pos + 1]
    IN  IF m.pos >= Len(m.filter_string) THEN "end"
        ELSE IF f.skipping > 0 THEN "skip"
        ELSE IF \/ (f.in_quotes # "" /\ char = f.in_quotes)
                \/ (f.in_quotes = "" /\ char \in Quotes) THEN "quote"
        ELSE IF f.in_quotes = "" /\ char = "(" THEN "open"
        ELSE IF f.in_quotes = "" /\ char = ")" THEN "close"
        ELSE IF f.in_quotes = "" /\ PySlice(m.filter_string, index, index + 5)
                                      = <<" ", "a", "n", "d", " ">> THEN "and"
        ELSE IF f.in_quotes = "" /\ PySlice(m.filter_string, index, index + 4)
                                      = <<" ", "o", "r", " ">> THEN "or"
        ELSE "char"

\* expression_str += char
Keep(m) ==
    LET f == Top(m)
    IN  SetTop(m, [f EXCEPT !.expression_str = Append(@, m.filter_string[m.pos + 1])])

\* if skipping > 0: skipping -= 1; continue
DoSkip(m) == Advance(SetTop(m, [Top(m) EXCEPT !.skipping = @ - 1]))

\* A quote character that opens a quote or closes the open one.
DoQuote(m) ==
    LET f == Top(m)
        char == m.filter_string[m.pos + 1]
    IN  Advance(Keep(SetTop(m, [f EXCEPT !.in_quotes = IF @ # "" THEN "" ELSE char])))

\* '(' outside quotes: the paren of a filter function stays in the leaf; a
\* grouping paren enters a new activation whose result becomes the child
\* list of the last segment (a new empty one if that already has children).
DoOpen(m) ==
    LET f == Top(m)
        last == f.segments[Len(f.segments)]
        fresh == Segment(m.paren_depth, f.last_junction, NoneExpr, << >>)
        segs == IF last.segments # << >> THEN Append(f.segments, fresh) ELSE f.segments
    IN  IF _is_filter_function(m.filter_string, m.pos)
        THEN Advance(Keep(SetTop(m, [f EXCEPT !.filter_function = TRUE])))
        ELSE LET caller == [f EXCEPT !.filter_function = FALSE, !.segments = segs]
             IN  Advance([m EXCEPT !.paren_depth = @ + 1,
                                   !.frames = Append(SubSeq(m.frames, 1, Len(m.frames) - 1), caller)
                                              \o << NewFrame(m.paren_depth + 1, f.last_junction) >>])

\* ')' outside quotes: the end of a filter function's arguments, or the end
\* of this activation.
\* self.paren_depth -= 1
Leave(m) == IF Raised(m) THEN m ELSE [m EXCEPT !.paren_depth = @ - 1]

DoClose(m) ==
    IF Top(m).filter_function
    THEN Advance(Keep(SetTop(m, [Top(m) EXCEPT !.filter_function = FALSE])))
    ELSE Advance(Return(Leave(_validate_clean_segment(_close_expression(m)))))

\* ' and ' or ' or ' outside quotes: the leaf is closed, the junction is
\* recorded and the rest of the word is skipped.
Record(m, junction, skipping) ==
    IF Raised(m) THEN m
    ELSE SetTop(m, [Top(m) EXCEPT !.last_junction = junction, !.skipping = skipping])

DoJunction(m, junction, skipping) == Advance(Record(_close_expression(m), junction, skipping))

\* Any other character.
DoChar(m) == Advance(Keep(m))

\* The code after the loop with the leaf closed before the check.
EndClosesFirst(m) == Return(_validate_clean_segment(_close_expression(m)))

\* The iterator is exhausted: the code after the loop.
DoEnd(m) == Return(_close_expression(_validate_clean_segment(m)))

\* One iteration of the loop of _parse_segments (or its exit).
ScanStep(m) ==
    LET b == Branch(m)
    IN  CASE b = "skip" -> DoSkip(m)
          [] b = "quote" -> DoQuote(m)
          [] b = "open" -> DoOpen(m)
          [] b = "close" -> DoClose(m)
          [] b = "and" -> DoJunction(m, "and_", 4)
          [] b = "or" -> DoJunction(m, "or_", 3)
          [] b = "char" -> DoChar(m)
          [] b = "end" -> DoEnd(m)

\* ------------------------------------------------------------------------
\* Expression builder: Odata._build_filters
\* ------------------------------------------------------------------------

\* BuildSegment with the popped junction_target forgotten: the children of a
\* segment replace the leaf they follow.
BuildSegment_noTarget(acc, segment, inner) ==
    LET a1 == IF segment.expression = NoneExpr THEN acc
              ELSE [acc EXCEPT !.junction = IF @ = "None" THEN segment.junction ELSE @,
                               !.expressions = Append(@, segment.expression)]
        n == Len(a1.expressions)
    IN  IF segment.segments = << >> THEN a1
        ELSE [a1 EXCEPT !.expressions =
                 Append(SubSeq(a1.expressions, 1, n - 1),
                        Junction(inner.outer_junction, inner.filters))]

\* The body of "for segment in segments" for one segment, on the locals
\* acc = [filters, expressions, junction]; inner is the result of
\* _build_filters(segment.segments), read only when the segment has children.
BuildSegment(acc, segment, inner) ==
    LET flush == /\ segment.expression # NoneExpr
                 /\ acc.junction # "None"
                 /\ acc.junction # segment.junction
                 /\ acc.expressions # << >>
        a1 == IF segment.expression = NoneExpr THEN acc
              ELSE IF acc.junction = "None"
              THEN [acc EXCEPT !.junction = segment.junction,
                               !.expressions = Append(@, segment.expression)]
              ELSE IF flush
              THEN [filters |-> Append(acc.filters, Junction(acc.junction, acc.expressions)),
                    expressions |-> << segment.expression >>,
                    junction |-> segment.junction]
              ELSE [acc EXCEPT !.expressions = Append(@, segment.expression)]
        n == Len(a1.expressions)
    IN  IF segment.segments = << >> THEN a1
        ELSE IF n > 0
        THEN \* junction_target = expressions.pop()
             [a1 EXCEPT !.expressions =
                 Append(SubSeq(a1.expressions, 1, n - 1),
                        Junction(inner.outer_junction,
                                 << a1.expressions[n] >> \o inner.filters))]
        ELSE [a1 EXCEPT !.expressions =
                 Append(@, Junction(inner.outer_junction, inner.filters))]

RECURSIVE _build_filters(_)
RECURSIVE BuildLoop(_, _, _)

\* The loop over segments from position k on.
BuildLoop(segments, k, acc) ==
    IF k > Len(segments) THEN acc
    ELSE BuildLoop(segments, k + 1,
                   BuildSegment(acc, segments[k],
                                IF segments[k].segments = << >>
                                THEN [filters |-> << >>, outer_junction |-> "and_"]
                                ELSE _build_filters(segments[k].segments)))

\* Odata._build_filters(segments): [filters, outer_junction].
_build_filters(segments) ==
    LET acc == BuildLoop(segments, 1,
                         [filters |-> << >>, expressions |-> << >>, junction |-> "None"])
        last == segments[Len(segments)].junction
        junction == IF acc.junction # "None" THEN acc.junction
                    ELSE IF Len(segments) > 0 /\ last # "None" THEN last
                    ELSE "and_"
    IN  IF acc.expressions = << >>
        THEN [filters |-> acc.filters, outer_junction |-> "and_"]
        ELSE [filters |-> Append(acc.filters, Junction(junction, acc.expressions)),
              outer_junction |-> IF segments[1].junction # "None"
                                 THEN segments[1].junction ELSE "and_"]

\* The rest of Odata._filter_parser once _parse_segments has returned:
\* self.query = self.query.filter(*filters).
_filter_parser(m) ==
    LET filters == _build_filters(m.segments).filters
    IN  [m EXCEPT !.query.filtered = TRUE,
                  !.query.criteria = @ \o filters,
                  !.pc = "orderby"]

\* ------------------------------------------------------------------------
\* Orderby resolver and the end of Odata.__init__
\* ------------------------------------------------------------------------

\* The value of an absent orderby parameter (no orderby and no default).
None == <<"None">>

W_asc == <<"a", "s", "c">>
W_desc == <<"d", "e", "s", "c">>

\* str.lower() on the letters the inputs use.
Lower(s) == [j \in 1..Len(s) |-> Lowercase(s[j])]

\* The orderby parser without its lower(): the direction as it is written.
OrderbyAsWritten(m) ==
    LET orderby_strs == Split(m.orderby, " ")
        direction == IF Len(orderby_strs) = 2 THEN orderby_strs[2] ELSE W_asc
        f == _get_field(m.query, orderby_strs[1])
    IN  IF Len(orderby_strs) > 2 THEN Raise(m, BadRequest(MSG_ORDERBY, "", << >>))
        ELSE IF direction \notin {W_asc, W_desc}
        THEN Raise(m, BadRequest(MSG_DIRECTION, "", << >>))
        ELSE IF ~f.ok THEN Raise(m, f.err)
        ELSE [m EXCEPT !.query = [f.query EXCEPT !.order_by =
                                     Append(@, [field |-> f.field, direction |-> direction])],
                       !.pc = "done"]

\* Odata._orderby_parser(orderby)
_orderby_parser(m) ==
    LET orderby_strs == Split(m.orderby, " ")
        direction == IF Len(orderby_strs) = 2 THEN Lower(orderby_strs[2]) ELSE W_asc
        f == _get_field(m.query, orderby_strs[1])
    IN  IF Len(orderby_strs) > 2 THEN Raise(m, BadRequest(MSG_ORDERBY, "", << >>))
        ELSE IF direction \notin {W_asc, W_desc}
        THEN Raise(m, BadRequest(MSG_DIRECTION, "", << >>))
        ELSE IF ~f.ok THEN Raise(m, f.err)
        ELSE IF f.field.kind = "relationship"
        THEN \* getattr(field, direction)() on a relationship attribute, whose
             \* comparator has no asc or desc operator
             Raise(m, Error("NotImplementedError", "", f.field.entity, f.field.name))
        ELSE [m EXCEPT !.query = [f.query EXCEPT !.order_by =
                                     Append(@, [field |-> f.field, direction |-> direction])],
                       !.pc = "done"]

\* Lines 110-112 of Odata.__init__: the orderby, when there is one.
OrderbyStep(m) ==
    IF m.orderby = None THEN [m EXCEPT !.pc = "done"] ELSE _orderby_parser(m)

\* One step of Odata.__init__, whatever it is.
Step(m) ==
    CASE m.pc = "scan" -> ScanStep(m)
      [] m.pc = "build" -> _filter_parser(m)
      [] m.pc = "orderby" -> OrderbyStep(m)
      [] OTHER -> m

\* Odata.__init__ run to its end from m.
RECURSIVE Run(_)
Run(m) == IF m.pc \in {"done", "error"} THEN m ELSE Run(Step(m))

\* ------------------------------------------------------------------------
\* Rows: what a predicate selects
\* ------------------------------------------------------------------------

RECURSIVE Leaves(_)
\* The comparisons a predicate is made of.
Leaves(e) ==
    IF e.op \in {"and_", "or_"}
    THEN UNION {Leaves(e.args[j]) : j \in 1..Len(e.args)}
    ELSE {e}

RECURSIVE Holds(_, _)
\* The predicate e is true of a row, a row being the set of the comparisons
\* true of it.
Holds(e, row) ==
    CASE e.op = "and_" -> \A j \in 1..Len(e.args) : Holds(e.args[j], row)
      [] e.op = "or_" -> \E j \in 1..Len(e.args) : Holds(e.args[j], row)
      [] OTHER -> e \in row

\* Query.filter(*criteria) keeps the rows of which every criterion is true.
Selects(criteria, row) == \A j \in 1..Len(criteria) : Holds(criteria[j], row)

\* ------------------------------------------------------------------------
\* Requests
\* ------------------------------------------------------------------------

MaxClauses == 3

MaxDepth == 2

MaxTokens == 3

AND == <<" ", "a", "n", "d", " ">>

OR == <<" ", "o", "r", " ">>

\* The clauses of the tests of src/tests/test_odata.py, shortened.
C_id_eq == <<"i", "d", " ", "e", "q", " ", "1">>
C_id_in == <<"i", "d", " ", "i", "n", " ", "(", "2", ")">>
C_note_ne == <<"n", "o", "t", "e", " ", "n", "e", " ", "'", "x", "'">>
C_logins_gt == <<"l", "o", "g", "i", "n", "s", " ", "g", "t", " ", "5">>
C_contains == <<"c", "o", "n", "t", "a", "i", "n", "s", "(", "n", "o", "t", "e", ",", "'", "x", "'", ")">>
C_bogus == <<"b", "o", "g", "u", "s", " ", "e", "q", " ", "1">>

\* The clause standing at position k of a generated filter.
ClauseAt(k) ==
    CASE k = 1 -> C_id_eq
      [] k = 2 -> C_id_in
      [] k = 3 -> C_note_ne
      [] OTHER -> C_logins_gt

Grouped(s) == <<"(">> \o s \o <<")">>

RECURSIVE Wrap(_, _)
\* s in d pairs of grouping parentheses.
Wrap(s, d) == IF d = 0 THEN s ELSE Grouped(Wrap(s, d - 1))

RECURSIVE ChainText(_, _, _, _, _)
\* The clauses i..n of the flat chain 'c1 J1 c2 ... cn', the clause k of it
\* in d pairs of parentheses (k = 0: none is).
ChainText(n, js, k, d, i) ==
    LET clause == IF i = k THEN Wrap(ClauseAt(i), d) ELSE ClauseAt(i)
    IN  IF i = n THEN clause
        ELSE clause \o js[i] \o ChainText(n, js, k, d, i + 1)

\* The flat chains of at most MaxClauses clauses, with no parentheses or with
\* one clause in at most MaxDepth pairs of them.
Chains ==
    UNION {{ChainText(n, js, 0, 0, 1) : js \in [1..(n - 1) -> {AND, OR}]}
           \cup {ChainText(n, js, k, d, 1) :
                    js \in [1..(n - 1) -> {AND, OR}], k \in 1..n, d \in 1..MaxDepth}
           : n \in 1..MaxClauses}

\* The clauses the three-clause filters of the tests are instantiated with.
Clauses == {C_id_eq, C_id_in, C_note_ne, C_contains}

\* 'a J1 b J2 c', 'a J1 (b J2 c)' and '(a J1 b) J2 c'.
Triples ==
    UNION {{a \o j1 \o b \o j2 \o c,
            a \o j1 \o <<"(">> \o b \o j2 \o c \o <<")">>,
            <<"(">> \o a \o j1 \o b \o <<")">> \o j2 \o c}
           : <<a, b, c, j1, j2>> \in Clauses \X Clauses \X Clauses \X {AND, OR} \X {AND, OR}}

\* Pieces of filter text put together in any order: balanced or not.
Tokens == {C_id_eq, C_bogus, AND, <<"(">>, <<")">>, <<"'">>, <<"\"">>}

RECURSIVE TokenStrings(_)
TokenStrings(n) ==
    IF n = 0 THEN {<< >>}
    ELSE {t \o s : t \in Tokens, s \in TokenStrings(n - 1)}

Mixed == UNION {TokenStrings(n) : n \in 1..MaxTokens}

\* One clause for each matcher of the table, and one no matcher matches.
C_active == <<"i", "s", "_", "a", "c", "t", "i", "v", "e", " ", "e", "q", " ", "t", "r", "u", "e">>
C_startswith == <<"s", "t", "a", "r", "t", "s", "w", "i", "t", "h", "(", "u", "s", "e", "r", "n", "a", "m", "e", ",", "'", "a", "'", ")">>
C_endswith == <<"e", "n", "d", "s", "w", "i", "t", "h", "(", "u", "s", "e", "r", "n", "a", "m", "e", ",", "'", "a", "'", ")">>
C_logins_lt == <<"l", "o", "g", "i", "n", "s", " ", "l", "t", " ", "5">>
C_logins_ge == <<"l", "o", "g", "i", "n", "s", " ", "g", "e", " ", "5">>
C_logins_le == <<"l", "o", "g", "i", "n", "s", " ", "l", "e", " ", "5">>
C_unknown == <<"i", "d", " ", "x", "x", " ", "1">>

\* Clauses whose quoted literal holds an operator, a paren, a junction or the
\* other quote.
C_ne_eq == <<"u", "s", "e", "r", "n", "a", "m", "e", " ", "n", "e", " ", "'", "a", " ", "e", "q", " ", "b", "'">>
C_startswith_eq == <<"s", "t", "a", "r", "t", "s", "w", "i", "t", "h", "(", "u", "s", "e", "r", "n", "a", "m", "e", ",", "'", "a", " ", "e", "q", " ", "b", "'", ")">>
C_in_eq == <<"u", "s", "e", "r", "n", "a", "m", "e", " ", "i", "n", " ", "(", "'", "a", " ", "e", "q", " ", "b", "'", ")">>
C_eq_ne == <<"n", "o", "t", "e", " ", "e", "q", " ", "'", "a", " ", "n", "e", " ", "b", "'">>
C_contains_eq == <<"c", "o", "n", "t", "a", "i", "n", "s", "(", "n", "o", "t", "e", ",", "'", "a", " ", "e", "q", " ", "b", "'", ")">>
C_quoted_or == <<"n", "o", "t", "e", " ", "n", "e", " ", "'", "(", "x", ")", " ", "o", "r", " ", "\"", "y", "'">>
C_quoted_and == <<"n", "o", "t", "e", " ", "e", "q", " ", "'", "x", " ", "a", "n", "d", " ", "(", "y", "'">>

\* Comparisons with datetime and date literals, from
\* test_user_filters_succeeds, and literals that strptime rejects.
L_datetime == <<"2", "0", "2", "0", "-", "0", "5", "-", "0", "1", "T", "0", "1", ":", "0", "0", ":", "0", "0">>

L_date == <<"2", "0", "2", "0", "-", "0", "5", "-", "0", "1">>

L_month == <<"2", "0", "2", "0", "-", "1", "3", "-", "0", "1", "T", "0", "4", ":", "0", "0", ":", "0", "0">>

L_day == <<"2", "0", "2", "0", "-", "0", "2", "-", "3", "0">>

D_created_gt == <<"c", "r", "e", "a", "t", "e", "d", " ", "g", "t", " ", "2", "0", "2", "0", "-", "0", "5", "-", "0", "1", "T", "0", "1", ":", "0", "0", ":", "0", "0">>

D_created_date == <<"c", "r", "e", "a", "t", "e", "d", " ", "g", "t", " ", "2", "0", "2", "0", "-", "0", "5", "-", "0", "1">>

D_created_month == <<"c", "r", "e", "a", "t", "e", "d", " ", "l", "t", " ", "2", "0", "2", "0", "-", "1", "3", "-", "0", "1", "T", "0", "4", ":", "0", "0", ":", "0", "0">>

D_start_ge == <<"s", "t", "a", "r", "t", "D", "a", "t", "e", " ", "g", "e", " ", "2", "0", "2", "0", "-", "0", "5", "-", "0", "1">>

D_start_eq == <<"s", "t", "a", "r", "t", "_", "d", "a", "t", "e", " ", "e", "q", " ", "'", "2", "0", "2", "0", "-", "0", "2", "-", "3", "0", "'">>

DateClauses == {D_created_gt, D_created_date, D_created_month, D_start_ge, D_start_eq}

\* Comparisons with null and with the booleans, from
\* test_user_filters_succeeds, and one with the quoted word.
B_note_eq_null == <<"n", "o", "t", "e", " ", "e", "q", " ", "n", "u", "l", "l">>

B_note_ne_null == <<"n", "o", "t", "e", " ", "n", "e", " ", "n", "u", "l", "l">>

B_active_false == <<"i", "s", "A", "c", "t", "i", "v", "e", " ", "e", "q", " ", "f", "a", "l", "s", "e">>

B_note_quoted == <<"n", "o", "t", "e", " ", "e", "q", " ", "'", "n", "u", "l", "l", "'">>

NullClauses == {B_note_eq_null, B_note_ne_null, B_active_false, B_note_quoted}

\* Filter functions with ' and ', ' or ' or a paren between their parens.
F_in_and == <<"i", "d", " ", "i", "n", " ", "(", "1", " ", "a", "n", "d", " ", "2", ")">>

F_contains_or == <<"c", "o", "n", "t", "a", "i", "n", "s", "(", "n", "o", "t", "e", " ", "o", "r", " ", "x", ",", "'", "a", "'", ")">>

F_in_group == <<"i", "d", " ", "i", "n", " ", "(", "1", ",", "(", "2", ")", ")">>

FunctionTexts == {F_in_and, F_contains_or, F_in_group}

Singles ==
    {C_id_eq, C_id_in, C_note_ne, C_logins_gt, C_contains, C_bogus,
     C_active, C_startswith, C_endswith, C_logins_lt,
     C_logins_ge, C_logins_le, C_unknown, C_ne_eq,
     C_startswith_eq, C_in_eq, C_eq_ne, C_contains_eq,
     C_quoted_or, C_quoted_and}

\* The unbalanced filters of test_mismatched_parens_fails and
\* test_mismatched_quotes_fails, shortened, and their like.
E_open_first == <<"(", "l", "o", "g", "i", "n", "s", " ", "g", "e", " ", "5">>
E_open_second == <<"l", "o", "g", "i", "n", "s", " ", "g", "e", " ", "5", " ", "a", "n", "d", " ", "(", "l", "o", "g", "i", "n", "s", " ", "l", "e", " ", "3">>
E_open_in == <<"i", "d", " ", "i", "n", " ", "(", "1", ",", "3">>
E_stray == <<"l", "o", "g", "i", "n", "s", " ", "g", "e", " ", "5", ")">>
E_stray_more == <<"(", "i", "d", " ", "e", "q", " ", "1", ")", ")", " ", "a", "n", "d", " ", "b", "o", "g", "u", "s", " ", "e", "q", " ", "2">>
E_quote_open == <<"n", "o", "t", "e", " ", "e", "q", " ", "\"", "x">>
E_quote_end == <<"n", "o", "t", "e", " ", "e", "q", " ", "x", "\"">>
E_quote_other == <<"n", "o", "t", "e", " ", "e", "q", " ", "\"", "x", "'">>
E_quote_group == <<"(", "n", "o", "t", "e", " ", "e", "q", " ", "\"", "x", "'">>

\* The two filters that tell the order of the checks apart.
E_bogus_quote == <<"b", "o", "g", "u", "s", " ", "e", "q", " ", "\"", "x">>

E_bogus_and_quote == <<"b", "o", "g", "u", "s", " ", "e", "q", " ", "1", " ", "a", "n", "d", " ", "u", "s", "e", "r", "n", "a", "m", "e", " ", "e", "q", " ", "\"", "x">>

Examples ==
    {E_open_first, E_open_second, E_open_in, E_stray,
     E_stray_more, E_quote_open, E_quote_end, E_quote_other,
     E_quote_group,
     E_bogus_quote, E_bogus_and_quote}

\* The filters of test_complex_filter_succeeds, shortened.
N_or_group == <<"i", "s", "_", "a", "c", "t", "i", "v", "e", " ", "e", "q", " ", "f", "a", "l", "s", "e", " ", "o", "r", " ", "(", "s", "t", "a", "r", "t", "s", "w", "i", "t", "h", "(", "u", "s", "e", "r", "n", "a", "m", "e", ",", "'", "o", "'", ")", " ", "a", "n", "d", " ", "i", "d", " ", "e", "q", " ", "4", ")">>
N_groups == <<"(", "(", "n", "o", "t", "e", " ", "n", "e", " ", "'", "x", "'", " ", "a", "n", "d", " ", "i", "d", " ", "i", "n", " ", "(", "2", ")", ")", " ", "a", "n", "d", " ", "(", "l", "o", "g", "i", "n", "s", " ", "g", "t", " ", "5", " ", "a", "n", "d", " ", "l", "o", "g", "i", "n", "s", " ", "l", "t", " ", "7", ")", ")", " ", "o", "r", " ", "(", "i", "s", "_", "a", "c", "t", "i", "v", "e", " ", "e", "q", " ", "t", "r", "u", "e", " ", "a", "n", "d", " ", "i", "d", " ", "e", "q", " ", "2", ")">>
N_or_groups == <<"(", "i", "d", " ", "e", "q", " ", "1", " ", "a", "n", "d", " ", "l", "o", "g", "i", "n", "s", " ", "e", "q", " ", "5", ")", " ", "o", "r", " ", "(", "l", "o", "g", "i", "n", "s", " ", "g", "t", " ", "1", " ", "a", "n", "d", " ", "n", "o", "t", "e", " ", "e", "q", " ", "'", "x", "'", ")", " ", "o", "r", " ", "c", "o", "n", "t", "a", "i", "n", "s", "(", "n", "o", "t", "e", ",", "'", "b", "'", ")", " ", "o", "r", " ", "(", "l", "o", "g", "i", "n", "s", " ", "g", "t", " ", "9", " ", "a", "n", "d", " ", "i", "d", " ", "e", "q", " ", "4", ")">>
N_quoted == <<"(", "i", "d", " ", "e", "q", " ", "1", " ", "a", "n", "d", " ", "(", "l", "o", "g", "i", "n", "s", " ", "g", "t", " ", "1", " ", "o", "r", " ", "n", "o", "t", "e", " ", "n", "e", " ", "'", "(", "x", "'", ")", " ", "a", "n", "d", " ", "c", "o", "n", "t", "a", "i", "n", "s", "(", "n", "o", "t", "e", ",", "'", "p", "'", ")", " ", "a", "n", "d", " ", "(", "l", "o", "g", "i", "n", "s", " ", "g", "t", " ", "2", " ", "o", "r", " ", "n", "o", "t", "e", " ", "n", "e", " ", "'", "x", ")", "'", ")", ")">>

Nested == {N_or_group, N_groups, N_or_groups, N_quoted}

\* Filters with balanced parentheses and quotes and recognized clauses.
WellFormed == Chains \cup Triples \cup Nested

Filters ==
    WellFormed \cup Mixed \cup Singles \cup Examples \cup DateClauses \cup NullClauses
    \cup FunctionTexts

\* The orderby parameters of test_orderby_succeeds and test_orderby_fails,
\* and others of each kind.
Orderbys == { <<"i", "d">>, <<"i", "d", " ", "d", "e", "s", "c">>, <<"i", "d", " ", "D", "E", "S", "C">>, <<"i", "d", " ", "u", "n", "k", "n", "o", "w", "n">>, <<"i", "d", " ", "a", "s", "c", " ", "x">>, <<"b", "o", "g", "u", "s">> }

\* Filters and orderbys that follow relationships, from
\* test_joined_filter_succeeds, test_joined_with_invalid_property_fails and
\* test_orderby_succeeds, and paths of the same kinds.
J_body_username == <<"b", "o", "d", "y", "/", "u", "s", "e", "r", "n", "a", "m", "e", " ", "e", "q", " ", "'", "x", "'">>

J_id_id == <<"i", "d", "/", "i", "d", " ", "e", "q", " ", "1">>

J_body_body == <<"b", "o", "d", "y", "/", "b", "o", "d", "y", " ", "e", "q", " ", "'", "x", "'">>

J_user_id_id == <<"u", "s", "e", "r", "/", "i", "d", "/", "i", "d", " ", "e", "q", " ", "1">>

J_user_body == <<"u", "s", "e", "r", "/", "b", "o", "d", "y", " ", "e", "q", " ", "'", "x", "'">>

J_user_username == <<"u", "s", "e", "r", "/", "u", "s", "e", "r", "n", "a", "m", "e", " ", "e", "q", " ", "'", "x", "'">>

J_contains_user == <<"c", "o", "n", "t", "a", "i", "n", "s", "(", "u", "s", "e", "r", "/", "u", "s", "e", "r", "n", "a", "m", "e", ",", "'", "x", "'", ")">>

J_user_roles_name == <<"u", "s", "e", "r", "/", "r", "o", "l", "e", "s", "/", "n", "a", "m", "e", " ", "e", "q", " ", "'", "x", "'">>

J_user_supervisor == <<"u", "s", "e", "r", "/", "s", "u", "p", "e", "r", "v", "i", "s", "o", "r", "/", "u", "s", "e", "r", "n", "a", "m", "e", " ", "e", "q", " ", "'", "x", "'">>

J_user_hybrid == <<"u", "s", "e", "r", "/", "u", "s", "e", "r", "n", "a", "m", "e", "S", "u", "p", "e", "r", "v", "i", "s", "o", "r", "I", "d", "/", "b", "o", "d", "y", " ", "e", "q", " ", "'", "x", "'">>

J_user == <<"u", "s", "e", "r", " ", "e", "q", " ", "'", "x", "'">>

J_nothing == <<"n", "o", "t", "h", "i", "n", "g", " ", "e", "q", " ", "'", "x", "'">>

J_roles == <<"r", "o", "l", "e", "s", " ", "e", "q", " ", "'", "x", "'">>

J_roles_in == <<"r", "o", "l", "e", "s", " ", "i", "n", " ", "(", "1", ")">>

J_supervisor_twice == <<"s", "u", "p", "e", "r", "v", "i", "s", "o", "r", "/", "s", "u", "p", "e", "r", "v", "i", "s", "o", "r", "/", "u", "s", "e", "r", "n", "a", "m", "e", " ", "e", "q", " ", "'", "x", "'">>

J_reports == <<"r", "e", "p", "o", "r", "t", "s", "/", "i", "d", " ", "e", "q", " ", "1">>

J_roles_twice == <<"r", "o", "l", "e", "s", "/", "n", "a", "m", "e", " ", "e", "q", " ", "'", "a", "'", " ", "a", "n", "d", " ", "r", "o", "l", "e", "s", "/", "i", "d", " ", "e", "q", " ", "1">>

J_roles_name == <<"r", "o", "l", "e", "s", "/", "n", "a", "m", "e", " ", "e", "q", " ", "'", "a", "'">>

J_supervisor_and == <<"s", "u", "p", "e", "r", "v", "i", "s", "o", "r", "/", "i", "d", " ", "e", "q", " ", "1", " ", "a", "n", "d", " ", "s", "u", "p", "e", "r", "v", "i", "s", "o", "r", "/", "i", "d", " ", "e", "q", " ", "2">>

O_roles_id == <<"r", "o", "l", "e", "s", "/", "i", "d">>

O_roles_id_desc == <<"r", "o", "l", "e", "s", "/", "i", "d", " ", "d", "e", "s", "c">>

O_roles == <<"r", "o", "l", "e", "s">>

O_user == <<"u", "s", "e", "r">>

\* (model, filter, orderby) of the requests on /comment that follow paths.
CommentPaths ==
    {<<"Comment", f, None>> :
        f \in {J_body_username, J_id_id, J_body_body, J_user_id_id, J_user_body,
               J_user_username, J_contains_user, J_user_roles_name,
               J_user_supervisor, J_user_hybrid, J_user, J_nothing}}
    \cup {<<"Comment", << >>, O_user>>}

\* (model, filter, orderby) of the requests on /user that follow paths.
UserPaths ==
    {<<"User", f, None>> :
        f \in {J_roles, J_roles_in, J_supervisor_twice, J_reports, J_roles_twice,
               J_supervisor_and}}
    \cup {<<"User", J_roles_name, O_roles_id>>}
    \cup {<<"User", << >>, o>> : o \in {O_roles_id, O_roles_id_desc, O_roles}}

\* (model, filter, orderby) of the requests: on /user a filter alone, or an
\* orderby with no filter or a short one; and the requests that follow paths.
Requests ==
    {<<"User", f, None>> : f \in Filters}
    \cup {<<"User", f, o>> : f \in {<< >>, C_id_eq, C_bogus}, o \in Orderbys}
    \cup CommentPaths
    \cup UserPaths

\* ------------------------------------------------------------------------
\* The state machine: one Odata.__init__ call, one loop iteration a step
\* ------------------------------------------------------------------------

VARIABLE odata

\* The process with two requests in it: the Odata instances made so far
\* (objects), for each request its parameters and the instance its wrapper
\* has made (calls, self = 0 before it is made), and the mapped attributes of
\* the model classes (registry).
VARIABLES objects, calls, registry

vars == << odata, objects, calls, registry >>

\* Nothing of the process but the one call moves.
OneCall == UNCHANGED << objects, calls, registry >>

Init ==
    /\ \E r \in Requests : odata = NewOdata(r[1], r[2], r[3])
    /\ objects = << >>
    /\ calls = << >>
    /\ registry = Registry

Scanning(b) == odata.pc = "scan" /\ Branch(odata) = b

SkipChar == Scanning("skip") /\ odata' = DoSkip(odata) /\ OneCall

QuoteChar == Scanning("quote") /\ odata' = DoQuote(odata) /\ OneCall

OpenParen == Scanning("open") /\ odata' = DoOpen(odata) /\ OneCall

CloseParen == Scanning("close") /\ odata' = DoClose(odata) /\ OneCall

JunctionAnd == Scanning("and") /\ odata' = DoJunction(odata, "and_", 4) /\ OneCall

JunctionOr == Scanning("or") /\ odata' = DoJunction(odata, "or_", 3) /\ OneCall

PlainChar == Scanning("char") /\ odata' = DoChar(odata) /\ OneCall

EndOfInput == Scanning("end") /\ odata' = DoEnd(odata) /\ OneCall

BuildFilters == odata.pc = "build" /\ odata' = _filter_parser(odata) /\ OneCall

Orderby == odata.pc = "orderby" /\ odata' = OrderbyStep(odata) /\ OneCall

Next ==
    \/ SkipChar
    \/ QuoteChar
    \/ OpenParen
    \/ CloseParen
    \/ JunctionAnd
    \/ JunctionOr
    \/ PlainChar
    \/ EndOfInput
    \/ BuildFilters
    \/ Orderby

Spec == Init /\ [][Next]_vars

\* ------------------------------------------------------------------------
\* Two requests in one process
\* ------------------------------------------------------------------------

\* (model, filter, orderby) of the requests that run together.
TwoRequests ==
    { <<"User", C_id_eq, <<"i", "d", " ", "d", "e", "s", "c">> >>,
      <<"User", Grouped(C_id_eq), None>>,
      <<"User", E_bogus_quote, None>>,
      <<"Comment", J_id_id, None>>,
      <<"Comment", J_user, None>>,
      <<"User", J_reports, O_roles_id>> }

Invocations == {1, 2}

\* One instance for every request.
SharedInstance(objs) == 1

\* Odata(session=..., model=..., ...) in the wrapper: a new instance, whose
\* fields __init__ sets.
NewInstance(objs) == Len(objs) + 1

\* The instance ref holds value.
Store(objs, ref, value) ==
    IF ref > Len(objs) THEN Append(objs, value) ELSE [objs EXCEPT ![ref] = value]

\* The first lines of Odata.__init__ for request i.
Enter(i) ==
    /\ calls[i].self = 0
    /\ LET ref == NewInstance(objects)
           r == calls[i].request
       IN  /\ objects' = Store(objects, ref, NewOdata(r[1], r[2], r[3]))
           /\ calls' = [calls EXCEPT ![i].self = ref]
    /\ UNCHANGED << odata, registry >>

\* One step of Odata.__init__ for request i, on its own instance.
Work(i) ==
    /\ calls[i].self # 0
    /\ objects[calls[i].self].pc \notin {"done", "error"}
    /\ objects' = [objects EXCEPT ![calls[i].self] = Step(@)]
    /\ UNCHANGED << odata, calls, registry >>

InitTwo ==
    /\ \E r1, r2 \in TwoRequests :
          /\ r1 # r2
          /\ calls = [i \in Invocations |-> [request |-> IF i = 1 THEN r1 ELSE r2, self |-> 0]]
    /\ objects = << >>
    /\ registry = Registry
    /\ odata = NewOdata("User", << >>, None)

NextTwo == \E i \in Invocations : Enter(i) \/ Work(i)

SpecTwo == InitTwo /\ [][NextTwo]_vars

\* ------------------------------------------------------------------------
\* Properties
\* ------------------------------------------------------------------------

\* The filter has been applied to the query.
Applied == odata.query.filtered

\* The call has failed on its filter.
FilterFailed == odata.pc = "error" /\ ~odata.query.filtered

\* The predicate of a clause standing alone.
PredOf(clause) == _parse_expression(NewQuery("User"), clause).expr

\* The rows that differ on the clauses a, b, c.
RowsOn(a, b, c) == SUBSET {PredOf(a), PredOf(b), PredOf(c)}

\* C1: 'a and (b or c)' selects exactly the rows satisfying a AND (b OR c),
\* 'a or (b and c)' exactly a OR (b AND c), and '(a and b) or c' exactly
\* (a AND b) OR c; a row that satisfies c but not a is selected by
\* '(a and b) or c' and not by 'a and (b or c)'.
C1_NestedGrouping ==
    odata.filter_string \in Triples =>
        \A a, b, c \in Clauses :
            LET A == PredOf(a)
                B == PredOf(b)
                C == PredOf(c)
                selected(row) == Selects(odata.query.criteria, row)
            IN  /\ odata.filter_string = a \o AND \o Grouped(b \o OR \o c) =>
                    /\ ~FilterFailed
                    /\ Applied =>
                        \A row \in RowsOn(a, b, c) :
                            /\ selected(row) <=> (A \in row /\ (B \in row \/ C \in row))
                            /\ (C \in row /\ A \notin row) => ~selected(row)
                /\ odata.filter_string = a \o OR \o Grouped(b \o AND \o c) =>
                    /\ ~FilterFailed
                    /\ Applied =>
                        \A row \in RowsOn(a, b, c) :
                            selected(row) <=> (A \in row \/ (B \in row /\ C \in row))
                /\ odata.filter_string = Grouped(a \o AND \o b) \o OR \o c =>
                    /\ ~FilterFailed
                    /\ Applied =>
                        \A row \in RowsOn(a, b, c) :
                            /\ selected(row) <=> ((A \in row /\ B \in row) \/ C \in row)
                            /\ (C \in row /\ A \notin row) => selected(row)

\* '(a and b) or c' has been applied and keeps a row that satisfies c alone.
C1_Witness ==
    /\ odata.pc = "done"
    /\ odata.filter_string = Grouped(C_id_eq \o AND \o C_id_in) \o OR \o C_note_ne
    /\ Selects(odata.query.criteria, {PredOf(C_note_ne)})
    /\ ~Selects(odata.query.criteria, {PredOf(C_id_in)})

\* C2: a flat filter 'c1 J1 c2 J2 c3' with J1 different from J2 applies the
\* left-to-right grouping (c1 J1 c2) J2 c3: 'a and b or c' selects exactly
\* the rows satisfying (a AND b) OR c, and 'a or b and c' exactly
\* (a OR b) AND c.
C2_FlatLeftToRight ==
    (Applied /\ odata.filter_string \in Triples) =>
        \A a, b, c \in Clauses :
            LET A == PredOf(a)
                B == PredOf(b)
                C == PredOf(c)
                selected(row) == Selects(odata.query.criteria, row)
            IN  /\ odata.filter_string = a \o AND \o b \o OR \o c =>
                    \A row \in RowsOn(a, b, c) :
                        selected(row) <=> ((A \in row /\ B \in row) \/ C \in row)
                /\ odata.filter_string = a \o OR \o b \o AND \o c =>
                    \A row \in RowsOn(a, b, c) :
                        selected(row) <=> ((A \in row \/ B \in row) /\ C \in row)

\* C3: wrapping one single clause of a filter in grouping parentheses does
\* not change the set of rows the filter selects, wherever that clause
\* stands: alone, or as any operand of a chain of and/or clauses.
C3_RedundantParens ==
    (Applied /\ odata.filter_string \in Chains) =>
        \A n \in 1..MaxClauses : \A js \in [1..(n - 1) -> {AND, OR}] :
            \A k \in 1..n : \A d \in 1..MaxDepth :
                odata.filter_string = ChainText(n, js, k, d, 1) =>
                    LET plain == Run(NewOdata("User", ChainText(n, js, 0, 0, 1), None))
                    IN  /\ plain.pc = "done"
                        /\ \A row \in SUBSET {PredOf(ClauseAt(i)) : i \in 1..n} :
                              Selects(odata.query.criteria, row)
                                  <=> Selects(plain.query.criteria, row)

\* C4: every filter whose grouping parentheses and quotes are balanced and
\* whose leaves are recognized clauses on existing fields succeeds, and
\* _build_filters hands exactly one root predicate to Query.filter.
C4_OneRootPredicate ==
    odata.filter_string \in WellFormed =>
        /\ ~FilterFailed
        /\ Applied => Len(odata.query.criteria) = 1

\* The scan is at the end of the filter string.
AtEnd == odata.pc = "scan" /\ odata.pos >= Len(odata.filter_string)

\* A grouping paren or a function-call paren is open.
Unclosed == odata.paren_depth > 0 \/ Top(odata).filter_function

\* C5 as stated: every filter that reaches end of input with an opening
\* parenthesis left unclosed is rejected with the error 'Parentheses in
\* filter string are mismatched.'
C5_UnclosedParenIsParenError ==
    (AtEnd /\ Unclosed) =>
        /\ Run(odata).pc = "error"
        /\ Run(odata).error = BadRequest(MSG_PARENS, "", << >>)

\* C5, amended: every filter that reaches end of input with an opening
\* parenthesis left unclosed is rejected; the error is the one of the
\* parentheses unless a quote is open there (then the one of the quotes) or
\* the clause being read in the innermost unclosed group, no function paren
\* being open, cannot be built (then that clause's error).
C5_UnclosedParenRejected ==
    (AtEnd /\ Unclosed) =>
        LET f == Top(odata)
            clause == _parse_expression(odata.query, f.expression_str)
            reading == /\ odata.paren_depth = f.segments[1].depth
                       /\ ~f.filter_function
                       /\ f.expression_str # << >>
        IN  /\ Run(odata).pc = "error"
            /\ Run(odata).error =
                  IF f.in_quotes # "" THEN BadRequest(MSG_QUOTES, "", << >>)
                  ELSE IF reading /\ ~clause.ok THEN clause.err
                  ELSE BadRequest(MSG_PARENS, "", << >>)

\* 'logins ge 5 and (logins le 3' has been rejected for its parentheses.
C5_Witness ==
    /\ odata.pc = "error"
    /\ odata.error.msg = MSG_PARENS
    /\ odata.filter_string = E_open_second
    /\ odata.pos = Len(odata.filter_string)
    /\ odata.paren_depth = 1

\* C6: a ')' outside quotes that closes neither a function-call paren nor an
\* open grouping paren makes the filter fail: the paren depth never goes
\* below 0, and a scan that succeeds has read the whole filter string and
\* ends with depth 0.
C6_StrayCloseRejected ==
    /\ odata.paren_depth >= 0
    /\ odata.pc \in {"build", "orderby", "done"} =>
          /\ odata.pos = Len(odata.filter_string)
          /\ odata.paren_depth = 0

RECURSIVE OpenQuote(_)
\* The quote character open after the text s, "" when none is: a quote is
\* closed by the next occurrence of the character that opened it.
OpenQuote(s) ==
    IF s = << >> THEN ""
    ELSE LET before == OpenQuote(SubSeq(s, 1, Len(s) - 1))
             char == s[Len(s)]
         IN  IF before = "" THEN (IF char \in Quotes THEN char ELSE "")
             ELSE IF char = before THEN "" ELSE before

\* C7: a quote opened by ' or " is closed only by the next occurrence of the
\* same character, and a filter in which a quote is still open at end of
\* input, at top level or inside a group, is rejected with the error 'Quotes
\* in filter string are mismatched.'
C7_OpenQuoteRejected ==
    /\ odata.pc = "scan" =>
          Top(odata).in_quotes = OpenQuote(SubSeq(odata.filter_string, 1, odata.pos))
    /\ (AtEnd /\ Top(odata).in_quotes # "") =>
          /\ Step(odata).pc = "error"
          /\ Step(odata).error = BadRequest(MSG_QUOTES, "", << >>)

\* '(note eq "x' followed by the other quote has been rejected for its
\* quotes, inside a group.
C7_Witness ==
    /\ odata.pc = "error"
    /\ odata.error.msg = MSG_QUOTES
    /\ odata.filter_string = E_quote_group
    /\ odata.pos = Len(odata.filter_string)
    /\ odata.paren_depth = 1

\* The next character is read inside a quoted literal and does not close it.
InsideQuotes ==
    /\ odata.pc = "scan"
    /\ odata.pos < Len(odata.filter_string)
    /\ Top(odata).in_quotes # ""
    /\ odata.filter_string[odata.pos + 1] # Top(odata).in_quotes

\* C8: inside a quoted literal no character changes the structure: the
\* paren depth, the function-paren flag, the groups, the leaves, the
\* junction and the open quote stay as they are, and the character is kept
\* in the current leaf's text.
C8_QuotedTextIsOpaque ==
    [][InsideQuotes =>
        /\ odata'.pc = "scan"
        /\ odata'.pos = odata.pos + 1
        /\ odata'.paren_depth = odata.paren_depth
        /\ odata'.query = odata.query
        /\ odata'.frames =
              [odata.frames EXCEPT ![Len(odata.frames)].expression_str =
                  Append(@, odata.filter_string[odata.pos + 1])]]_vars

\* All of (x) or "y has been read inside the quotes of note ne '(x) or "y'.
C8_Witness ==
    /\ odata.pc = "scan"
    /\ odata.filter_string = C_quoted_or
    /\ odata.pos = Len(odata.filter_string) - 1
    /\ Top(odata).in_quotes = "'"
    /\ Top(odata).expression_str = SubSeq(odata.filter_string, 1, odata.pos)
    /\ odata.paren_depth = 0
    /\ Len(odata.frames) = 1
    /\ Len(Top(odata).segments) = 1

\* The attribute of User a one-component path names.
UserField(name) == _get_field(NewQuery("User"), name).field

W_username == <<"u", "s", "e", "r", "n", "a", "m", "e">>
W_note == <<"n", "o", "t", "e">>
A_eq_b == <<"a", " ", "e", "q", " ", "b">>
A_ne_b == <<"a", " ", "n", "e", " ", "b">>

\* The clauses with an operator inside their literal, and the predicate of
\* each one's own operator on its own field and whole literal.
OwnPredicate ==
    { <<C_ne_eq, Compare("ne", UserField(W_username), A_eq_b, "str")>>,
      <<C_startswith_eq, Compare("startswith", UserField(W_username), A_eq_b, "str")>>,
      <<C_in_eq, Expr("in", UserField(W_username), << >>, << A_eq_b >>, "str", << >>)>>,
      <<C_eq_ne, Compare("eq", UserField(W_note), A_ne_b, "str")>>,
      <<C_contains_eq, Compare("contains", UserField(W_note), A_eq_b, "str")>> }

\* C9: for a leaf clause whose quoted literal contains an operator-like
\* substring, the predicate built is the one of the clause's own operator,
\* on the clause's own field, with the whole literal as value.
C9_OperatorInLiteral ==
    \A case \in OwnPredicate :
        odata.filter_string = case[1] =>
            /\ ~FilterFailed
            /\ Applied => odata.query.criteria = << Junction("and_", << case[2] >>) >>

RECURSIVE LeavesIn(_)
\* The leaf segments of a list of segments and of their children.
LeavesIn(segments) ==
    UNION {(IF segments[j].string # << >> THEN {segments[j]} ELSE {})
           \cup LeavesIn(segments[j].segments) : j \in 1..Len(segments)}

\* The leaf segments of a state: of the tree handed to _build_filters and of
\* the activations of _parse_segments.
SegmentsOf(m) ==
    LeavesIn(m.segments) \cup UNION {LeavesIn(m.frames[i].segments) : i \in 1..Len(m.frames)}

\* The position in the table of the first entry whose pattern matches, 0
\* when none does.
FirstMatcher(expression_str) ==
    LET hits == {k \in 1..Len(odata_filters) :
                    RegexSearch(odata_filters[k], expression_str).ok}
    IN  IF hits = {} THEN 0 ELSE Min(hits)

\* What the first matching entry's builder makes of a leaf text.
FirstBuilt(query, expression_str) ==
    LET k == FirstMatcher(expression_str)
    IN  ApplyBuilder(odata_filters[k], query, RegexSearch(odata_filters[k], expression_str))

\* The next step closes the leaf being read.
Closing ==
    /\ odata.pc = "scan"
    /\ Top(odata).expression_str # << >>
    /\ \/ Branch(odata) \in {"and", "or"}
       \/ Branch(odata) = "close" /\ ~Top(odata).filter_function
       \/ Branch(odata) = "end" /\ ~Raised(_validate_clean_segment(odata))

\* C10: the predicate of every leaf is built by the first matcher of the
\* table whose pattern matches its text, and by no other; a leaf that no
\* matcher matches fails the call with 'No available filter matches segment
\* <leaf text>'.
C10_FirstMatcherBuilds ==
    /\ odata.pc = "build" =>
          \A leaf \in LeavesIn(odata.segments) :
              /\ FirstMatcher(leaf.string) # 0
              /\ AliasCount(odata.query) = 0 =>
                    leaf.expression = FirstBuilt(NewQuery(odata.query.model), leaf.string).expr
    /\ Closing =>
          LET s == Top(odata).expression_str
              next == Step(odata)
          IN  IF FirstMatcher(s) = 0
              THEN next.pc = "error" /\ next.error = BadRequest(MSG_NOFILTER, "", s)
              ELSE IF FirstBuilt(odata.query, s).ok
              THEN /\ next.pc # "error"
                   /\ next.query = FirstBuilt(odata.query, s).query
                   /\ \E leaf \in SegmentsOf(next) :
                         /\ leaf.string = s
                         /\ leaf.expression = FirstBuilt(odata.query, s).expr
              ELSE next.pc = "error" /\ next.error = FirstBuilt(odata.query, s).err
    /\ (odata.pc = "error" /\ odata.error.msg = MSG_NOFILTER) =>
          FirstMatcher(odata.error.text) = 0

\* 'is_active eq true', which the patterns of eqbool and of eq both match,
\* has been built by eqbool.
C10_Witness ==
    /\ odata.pc = "done"
    /\ odata.filter_string = C_active
    /\ FirstMatcher(odata.filter_string) = 2
    /\ RegexSearch("eq", odata.filter_string).ok
    /\ odata.query.criteria[1].args[1].vtype = "const"

\* ------------------------------------------------------------------------
\* Paths
\* ------------------------------------------------------------------------

\* The call is over.
Over == odata.pc \in {"done", "error"}

\* The components of the path a comparison clause names, in snake case.
PathOf(clause) ==
    LET parts == Split(SubSeq(clause, 1, SkipUntil(clause, 1, {" "}) - 1), "/")
    IN  [j \in 1..Len(parts) |-> snakecase(parts[j])]

RECURSIVE EntityAt(_, _, _)
\* The entity the k-th component of a path is looked up on when every
\* component before it, by its position, is a relationship: "" when one of
\* them is not.
EntityAt(entity, path, k) ==
    IF k = 1 THEN entity
    ELSE LET e == EntityAt(entity, path, k - 1)
             found == IF e = "" THEN {} ELSE GetAttr(e, path[k - 1])
         IN  IF found = {} \/ (CHOOSE a \in found : TRUE).kind # "relationship"
             THEN ""
             ELSE (CHOOSE a \in found : TRUE).target

\* The comparison clauses on a path of the requests.
PathClauses ==
    {J_body_username, J_id_id, J_body_body, J_user_id_id, J_user_body,
     J_user_username, J_user_roles_name, J_user_supervisor, J_user_hybrid,
     J_user, J_nothing, J_roles, J_supervisor_twice, J_reports}

\* C11: every component of a path before the last position must be a
\* relationship of the entity it is looked up on: when it names a member of
\* that entity that is not a relationship, the call fails with '<Entity> has
\* no relationship property named <component>', also when the component has
\* the name of the last one ('id/id', 'body/body' on Comment).
C11_NonFinalMustBeRelationship ==
    (Over /\ odata.filter_string \in PathClauses) =>
        LET path == PathOf(odata.filter_string)
        IN  \A k \in 1..(Len(path) - 1) :
                LET e == EntityAt(odata.query.model, path, k)
                    found == IF e = "" THEN {} ELSE GetAttr(e, path[k])
                IN  (found # {} /\ (CHOOSE a \in found : TRUE).kind # "relationship") =>
                        /\ odata.pc = "error"
                        /\ odata.error = BadRequest(MSG_NOREL, e, path[k])

\* The last component of a path names nothing on the entity it is looked up
\* on, or names a relationship of it.
NoScalarAtEnd(entity, path) ==
    LET e == EntityAt(entity, path, Len(path))
        found == IF e = "" THEN {} ELSE GetAttr(e, path[Len(path)])
    IN  /\ e # ""
        /\ found = {} \/ (CHOOSE a \in found : TRUE).kind = "relationship"

\* The path of the request: of its comparison clause, or of its orderby when
\* it has no filter.
RequestPath ==
    IF odata.filter_string # << >> THEN PathOf(odata.filter_string)
    ELSE PathOf(odata.orderby)

\* The request is one comparison clause on a path, or an orderby alone.
PathRequest ==
    \/ odata.filter_string \in PathClauses
    \/ odata.filter_string = << >> /\ odata.orderby # None

\* C12: the last component of a path must name a scalar field of the entity
\* it is looked up on: when it names nothing there, or names a relationship
\* ('user' on Comment, 'roles' on User), the call fails with '<Entity> has
\* no column named <component>' and no predicate and no sort is built.
C12_FinalMustBeColumn ==
    (Over /\ PathRequest /\ NoScalarAtEnd(odata.query.model, RequestPath)) =>
        /\ odata.pc = "error"
        /\ odata.error = BadRequest(MSG_NOCOLUMN,
                                    EntityAt(odata.query.model, RequestPath, Len(RequestPath)),
                                    RequestPath[Len(RequestPath)])
        /\ odata.query.criteria = << >>
        /\ odata.query.order_by = << >>

\* The entity a join of the query leads to.
TargetOf(j) == (CHOOSE a \in GetAttr(j.entity, j.name) : TRUE).target

\* C13: every hop of a path whose target entity is the entity the hop starts
\* from joins through a fresh alias of it, distinct from the base entity and
\* from every other alias of the query, also when two such hops follow each
\* other ('supervisor/supervisor/username'); no such hop joins the unaliased
\* entity.
C13_SelfReferentialHopsAreAliased ==
    \A i \in 1..Len(odata.query.joins) :
        LET j == odata.query.joins[i]
        IN  TargetOf(j) = j.entity =>
                /\ j.alias > 0
                /\ \A k \in 1..Len(odata.query.joins) :
                      k # i => odata.query.joins[k].alias # j.alias

\* C14: when the call has finished, the joins of the query hold at most one
\* join per relationship, however many paths of the filter and of the orderby
\* go through that relationship ('roles/name eq ... and roles/id eq ...', or
\* a filter on 'roles/name' with the orderby 'roles/id').
C14_OneJoinPerRelationship ==
    odata.pc = "done" =>
        \A i, k \in 1..Len(odata.query.joins) :
            (/\ odata.query.joins[i].entity = odata.query.joins[k].entity
             /\ odata.query.joins[i].name = odata.query.joins[k].name) => i = k

\* The blanks of an orderby parameter.
Blanks(orderby) == {j \in 1..Len(orderby) : orderby[j] = " "}

\* C15: an orderby parameter of more than two blank-separated tokens fails
\* with the malformed-orderby error; one of two tokens whose second is not
\* 'asc' or 'desc' in any letter case fails with 'orderby direction can only
\* be [asc] or [desc]'; one of a single token sorts ascending; and when the
\* orderby succeeds the query has gained exactly one sort instruction, on
\* the field its first token resolves to and in that direction.
C15_OrderbyTokens ==
    (odata.pc = "orderby" /\ odata.orderby # None) =>
        LET o == odata.orderby
            next == Step(odata)
            sp == IF Blanks(o) = {} THEN Len(o) + 1 ELSE Min(Blanks(o))
            name == SubSeq(o, 1, sp - 1)
            second == SubSeq(o, sp + 1, Len(o))
            f == _get_field(odata.query, name)
        IN  IF Cardinality(Blanks(o)) > 1
            THEN /\ next.pc = "error"
                 /\ next.error = BadRequest(MSG_ORDERBY, "", << >>)
            ELSE IF Cardinality(Blanks(o)) = 1 /\ Lower(second) \notin {W_asc, W_desc}
            THEN /\ next.pc = "error"
                 /\ next.error = BadRequest(MSG_DIRECTION, "", << >>)
            ELSE IF next.pc = "done"
            THEN /\ f.ok
                 /\ Len(next.query.order_by) = Len(odata.query.order_by) + 1
                 /\ next.query.order_by[Len(next.query.order_by)] =
                       [field |-> f.field,
                        direction |-> IF Blanks(o) = {} THEN W_asc ELSE Lower(second)]
            ELSE next.pc = "error" /\ next.query.order_by = odata.query.order_by
                 /\ (f.ok => f.field.kind = "relationship")

\* 'id DESC' has been accepted and sorts descending on User.id.
C15_Witness ==
    /\ odata.pc = "done"
    /\ odata.orderby = <<"i", "d", " ", "D", "E", "S", "C">>
    /\ odata.query.order_by = << [field |-> UserField(<<"i", "d">>), direction |-> W_desc] >>

\* The literal of a comparison with a datetime or a date, and the format of
\* the field it is compared with.
DateLiteral(clause) ==
    CASE clause = D_created_gt -> <<L_datetime, STRPTIME_DATETIME>>
      [] clause = D_created_date -> <<L_date, STRPTIME_DATETIME>>
      [] clause = D_created_month -> <<L_month, STRPTIME_DATETIME>>
      [] clause = D_start_ge -> <<L_date, STRPTIME_DATE>>
      [] clause = D_start_eq -> <<L_day, STRPTIME_DATE>>

\* C16: a comparison of a datetime or date field with a literal that cannot
\* be parsed in the field's format ends the call with a BadRequest, never
\* with another exception, and never builds a predicate on the unparsed
\* text.
C16_BadDateIsBadRequest ==
    (Over /\ odata.filter_string \in DateClauses) =>
        LET d == DateLiteral(odata.filter_string)
        IN  ~StrptimeOk(d[1], d[2]) =>
                /\ odata.pc = "error"
                /\ odata.error.exc = "BadRequest"
                /\ odata.query.criteria = << >>

\* The error of the filter of the request when it is processed alone.
FilterError == Run(NewOdata(odata.query.model, odata.filter_string, None)).error

\* C17: the call reports the first error in processing order.  The filter
\* is scanned and built before the orderby is looked at, so a call that
\* fails on its filter reports the filter's error whatever its orderby is; a
\* leaf's error is raised by the step that closes that leaf; and at end of
\* input the check of the quotes and parentheses is made before the last
\* leaf is matched: 'bogus eq "x' reports mismatched quotes, 'bogus eq 1 and
\* username eq "x' reports the unknown field bogus.
C17_FirstErrorInOrder ==
    /\ odata.pc \in {"scan", "build"} => odata.query.order_by = << >>
    /\ (FilterFailed /\ odata.filter_string # << >>) => odata.error = FilterError
    /\ (odata.pc = "error" /\ odata.error.msg \in {MSG_ORDERBY, MSG_DIRECTION}) =>
          odata.filter_string = << >> \/ Applied
    /\ odata.pc = "scan" =>
          LET next == Step(odata)
              s == Top(odata).expression_str
              checked == _validate_clean_segment(odata)
          IN  /\ (next.pc = "error" /\ next.error.msg \notin {MSG_QUOTES, MSG_PARENS}) =>
                    /\ s # << >>
                    /\ Branch(odata) \in {"and", "or", "close", "end"}
                    /\ next.error = _parse_expression(odata.query, s).err
              /\ (s # << >> /\ Branch(odata) \in {"and", "or"}
                            /\ ~_parse_expression(odata.query, s).ok) =>
                    /\ next.pc = "error"
                    /\ next.error = _parse_expression(odata.query, s).err
              /\ (AtEnd /\ Top(odata).in_quotes # "") =>
                    next.pc = "error" /\ next.error = BadRequest(MSG_QUOTES, "", << >>)
              /\ (AtEnd /\ Raised(checked)) =>
                    next.pc = "error" /\ next.error = checked.error
    /\ (Over /\ odata.filter_string = E_bogus_quote) =>
          odata.error = BadRequest(MSG_QUOTES, "", << >>)
    /\ (Over /\ odata.filter_string = E_bogus_and_quote) =>
          odata.error = BadRequest(MSG_NOCOLUMN, "User", <<"b", "o", "g", "u", "s">>)

\* 'bogus eq "x' has been rejected for its quotes, its unknown field unseen.
C17_Witness ==
    /\ odata.pc = "error"
    /\ odata.filter_string = E_bogus_quote
    /\ odata.error = BadRequest(MSG_QUOTES, "", << >>)
    /\ ~_parse_expression(odata.query, odata.filter_string).ok

\* What request i ends with when it runs alone.
Alone(i) == Run(NewOdata(calls[i].request[1], calls[i].request[2], calls[i].request[3]))

\* C18: no mutable state is shared between two calls: however the steps of
\* two calls on different inputs interleave, each call has its own instance
\* and ends with the query or the error it ends with when it runs alone, and
\* the registry of the model classes stays as it was.
C18_CallsAreIsolated ==
    /\ registry = Registry
    /\ \A i \in Invocations :
          calls[i].self # 0 =>
              /\ Run(objects[calls[i].self]) = Alone(i)
              /\ \A k \in Invocations : k # i => calls[k].self # calls[i].self

\* The second request entered first and is in the middle of its scan while
\* the first request, entered after it, has ended with its query.
C18_Witness ==
    /\ calls[2].self = 1
    /\ calls[1].self = 2
    /\ objects[1].pc = "scan" /\ objects[1].pos > 0
    /\ objects[2].pc = "done"
    /\ objects[2] = Alone(1)

\* The values of a row: NULL, a boolean, or a string.
Null == [t |-> "null", v |-> << >>]

Bool(word) == [t |-> "bool", v |-> word]

Str(text) == [t |-> "str", v |-> text]

\* The value a comparison compares its field with.
Literal(e) ==
    IF e.vtype = "const" THEN (IF e.value = W_null THEN Null ELSE Bool(e.value))
    ELSE Str(e.value)

\* field == value or field != value is true of a row, a row giving every
\* field its value: with None they are IS NULL and IS NOT NULL, with
\* another value = and !=, which are true of no NULL.
Selected(e, row) ==
    LET x == row[e.field.name]
    IN  IF Literal(e) = Null
        THEN (IF e.op = "eq" THEN x = Null ELSE x # Null)
        ELSE x # Null /\ (IF e.op = "eq" THEN x = Literal(e) ELSE x # Literal(e))

W_is_active == <<"i", "s", "_", "a", "c", "t", "i", "v", "e">>

\* Rows with a note and a flag.
FlagRows ==
    [{W_note, W_is_active} -> {Null, Bool(W_true), Bool(W_false), Str(W_null), Str(W_false)}]

\* The three words of a leaf text of the form 'f eq X' or 'f ne X' with X a
\* bare null, true or false; << >> for any other text.
BareWords(s) ==
    LET b == Blanks(s)
        sp1 == Min(b)
        sp2 == Max(b)
        words == <<SubSeq(s, 1, sp1 - 1), SubSeq(s, sp1 + 1, sp2 - 1), SubSeq(s, sp2 + 1, Len(s))>>
    IN  IF Cardinality(b) = 2 /\ words[1] # << >>
           /\ words[2] \in {W_eq, W_ne} /\ words[3] \in {W_null, W_true, W_false}
        THEN words ELSE << >>

\* C19: a clause 'f eq X' or 'f ne X' with X the bare word null, true or
\* false is built as a comparison of f with the null value or the boolean,
\* never with the string of that word, the null/boolean entry of the table
\* coming before those of eq and ne: 'note eq null' selects exactly the rows
\* whose note is unset, 'note ne null' exactly the others, and 'isActive eq
\* false' exactly the rows whose flag is false.
C19_NullAndBooleans ==
    /\ odata.pc = "build" =>
          \A leaf \in LeavesIn(odata.segments) :
              BareWords(leaf.string) # << >> =>
                  /\ leaf.expression.op = (IF BareWords(leaf.string)[2] = W_eq THEN "eq" ELSE "ne")
                  /\ leaf.expression.field.name = snakecase(BareWords(leaf.string)[1])
                  /\ Literal(leaf.expression) \in {Null, Bool(W_true), Bool(W_false)}
                  /\ Literal(leaf.expression).v \in {<< >>, BareWords(leaf.string)[3]}
    /\ (odata.pc = "done" /\ odata.filter_string \in NullClauses \ {B_note_quoted}) =>
          LET e == odata.query.criteria[1].args[1]
          IN  \A row \in FlagRows :
                  Selected(e, row) <=>
                      CASE odata.filter_string = B_note_eq_null -> row[W_note] = Null
                        [] odata.filter_string = B_note_ne_null -> row[W_note] # Null
                        [] OTHER -> row[W_is_active] = Bool(W_false)

\* 'note eq null' has been built as a comparison with the null value: it
\* selects a row whose note is unset and none whose note is the string.
C19_Witness ==
    /\ odata.pc = "done"
    /\ odata.filter_string = B_note_eq_null
    /\ Literal(odata.query.criteria[1].args[1]) = Null
    /\ \E row \in FlagRows : Selected(odata.query.criteria[1].args[1], row)

\* The pos characters read so far end with the word w.
Preceded(filter_string, pos, w) ==
    pos >= Len(w) /\ SubSeq(filter_string, pos - Len(w) + 1, pos) = w

\* The next character is a '(' outside quotes that follows the name of a
\* filter function.
AtFunctionParen ==
    /\ odata.pc = "scan"
    /\ Branch(odata) = "open"
    /\ \E w \in {W_contains, W_startswith, W_endswith, W_in, W_in \o <<" ">>} :
          Preceded(odata.filter_string, odata.pos, w)

\* The step has kept the next character in the leaf being read and has left
\* the depth, the activations, the segments and the junction as they were.
KeptInLeaf(next) ==
    /\ next.pc = "scan"
    /\ next.pos = odata.pos + 1
    /\ next.paren_depth = odata.paren_depth
    /\ Len(next.frames) = Len(odata.frames)
    /\ Top(next).segments = Top(odata).segments
    /\ Top(next).last_junction = Top(odata).last_junction
    /\ Top(next).skipping = 0
    /\ Top(next).expression_str =
          Append(Top(odata).expression_str, odata.filter_string[odata.pos + 1])

\* C20: a '(' that follows contains, startswith, endswith, 'in' or 'in ' is
\* the paren of a function call: it changes no depth and opens no child
\* list, its ')' closes no group, and every character between the two,
\* those of ' and ' and ' or ' outside quotes too, is kept in the same leaf,
\* which is not closed, with no junction recorded.
C20_FunctionParens ==
    (odata.pc = "scan" /\ odata.pos < Len(odata.filter_string)) =>
        LET f == Top(odata)
            char == odata.filter_string[odata.pos + 1]
            next == Step(odata)
        IN  /\ AtFunctionParen => KeptInLeaf(next) /\ Top(next).filter_function
            /\ (f.filter_function /\ f.in_quotes = "" /\ char = ")") =>
                  KeptInLeaf(next) /\ ~Top(next).filter_function
            /\ (f.filter_function /\ ~(f.in_quotes = "" /\ char = ")")) =>
                  KeptInLeaf(next) /\ Top(next).filter_function

RECURSIVE NodesIn(_)
\* The segments of a list of segments and of their children, leaves or not.
NodesIn(segments) ==
    UNION {{segments[j]} \cup NodesIn(segments[j].segments) : j \in 1..Len(segments)}

\* C21: in every segment tree _parse_segments returns, a Segment whose list
\* of child segments is not empty has no leaf expression: a group is never
\* stored as the children of the segment of a clause (in 'a and (b or c)'
\* the group is not stored under the segment of clause a).
C21_GroupsAreNotUnderLeaves ==
    odata.pc = "build" =>
        \A segment \in NodesIn(odata.segments) :
            segment.segments # << >> =>
                segment.expression = NoneExpr /\ segment.string = << >>

====
